---- MODULE Spec2Model ----
(***************************************************************************)
(* Lane arbitration of the traffic dashboard: the Index page's state, its  *)
(* two effects, and the timers of ModelController, on a 1-second clock.    *)
(* A timer is the number of seconds left before its callback is due; a     *)
(* timer at 0 is due and fires before the clock advances.  Timers that are *)
(* due in the same second fire in either order.                            *)
(*                                                                         *)
(* An action is one callback or command together with the commit it        *)
(* causes: the state updates are applied and the effects whose             *)
(* dependencies changed run once.  A state object stored by a setter is a  *)
(* new object, so the effects that depend on it run even when its fields   *)
(* are unchanged.  When the lane switching effect itself calls             *)
(* setActiveLane, its re-run is the separate action Rerender.              *)
(***************************************************************************)
EXTENDS Integers, FiniteSets

VARIABLES
    activeLane,       \* Index: useState<Lane>("lane1")
    vehicleCounts,    \* Index: useState({lane1: 0, lane2: 0})
    emergencyStatus,  \* Index: useState({lane1: false, lane2: false})
    signalTimes,      \* Index: useState({lane1: 30, lane2: 30})
    isRunning,        \* Index: useState(false)
    switchTimer,      \* the setTimeout of the lane switching effect
    pendingRender,    \* the effect called setActiveLane; its re-run is pending
    yoloTimer,        \* yoloIntervalRef: the 3000 ms interval
    yoloLane,         \* activeLane as captured by the interval's closure
    audioTimer,       \* audioIntervalRef: the 5000 ms interval
    clearTimers,      \* pending "clear emergency" timeouts, per lane
    hasAnalyser,      \* audioAnalyserRef.current is set (AudioContext exists)
    grantLeft,        \* history: seconds left of the green time the active
                      \* lane was given when it became active
    lastAction,       \* history: the callback or command that ran last
    countdown,        \* TrafficSignal of the active lane: useState(timeRemaining)
    adapter,          \* modelUtils: the cached models (yoloModel, audioModel
                      \* are set) and the outcome of the last call of
                      \* runYoloModel and of runAudioModel
    modelStatus,      \* ModelController: useState({yolo: "idle", audio: "idle"})
    isSimulation,     \* ModelController: useState(false)
    yoloAwait,        \* calls of startYoloProcessing waiting at their await,
                      \* counted by the activeLane they captured
    audioAwait,       \* calls of startAudioProcessing waiting at their await
    yoloOrphans,      \* live yolo intervals that yoloIntervalRef no longer
                      \* holds: [t, lane]
    audioOrphans,     \* live audio intervals that audioIntervalRef no longer
                      \* holds: seconds left
    clock,            \* seconds since the page came up, where they are counted
    starts,           \* presses of Start Processing, where they are counted
    cache             \* modelUtils, where the loads in flight are followed:
                      \* per model the instance cached (NoModel if none),
                      \* the instances created so far, the pipeline() calls
                      \* in flight and the instances the loader returned

vars == <<activeLane, vehicleCounts, emergencyStatus, signalTimes, isRunning,
          switchTimer, pendingRender, yoloTimer, yoloLane, audioTimer,
          clearTimers, hasAnalyser, grantLeft, lastAction, countdown,
          adapter, modelStatus, isSimulation,
          yoloAwait, audioAwait, yoloOrphans, audioOrphans, clock, starts,
          cache>>

\* The state of ModelController and modelUtils that the arbitration does not
\* read
\* The calls in flight and the intervals of ModelController that its refs
\* do not hold
raceVars == <<yoloAwait, audioAwait, yoloOrphans, audioOrphans, clock,
              starts, cache>>

ctlVars == <<adapter, modelStatus, isSimulation, raceVars>>

----------------------------------------------------------------------------
(* Bounds and program constants *)

MaxCount == 2            \* vehicle counts reported are 0..MaxCount
MaxPolicyCount == 30     \* counts on the page when the policy is applied alone
MaxDetections == 2       \* vehicles a model inference detects: 0..MaxDetections
MaxStarts == 2           \* presses of Start Processing followed
MaxClock == 10           \* seconds followed after an asynchronous start

MinTime == 15
MaxTime == 60
BaseTime == 30
YoloPeriod == 3
AudioPeriod == 5
ClearDelay == 5
FallbackSpan == 10       \* Math.floor(Math.random() * 10) is in 0..9

NoTimer == 0 - 1

Lanes == {"lane1", "lane2"}

Other(lane) == IF lane = "lane1" THEN "lane2" ELSE "lane1"

Max(a, b) == IF a >= b THEN a ELSE b
Min(a, b) == IF a <= b THEN a ELSE b

\* Variant: the share rounded down
Round_Floor(n, total) == (BaseTime * n) \div total

\* Math.round(30 * (n / total)): the nearest integer, halves rounded up
Round(n, total) == (2 * BaseTime * n + total) \div (2 * total)

\* Variant: the rounded share without the clamp to [MinTime, MaxTime]
LaneTime_NoClamp(n, total) == Round(n, total)

\* Variant: the share taken as a percentage instead of a part of BaseTime
LaneTime_Percent(n, total) ==
    Max(MinTime, Min(MaxTime, (200 * n + total) \div (2 * total)))

LaneTime(n, total) == Max(MinTime, Min(MaxTime, Round(n, total)))

\* The signal time effect: what setSignalTimes is called with
ComputeSignalTimes(counts) ==
    LET total == counts["lane1"] + counts["lane2"]
    IN  [l \in Lanes |-> LaneTime(counts[l], total)]

\* Variant: the effect does not test isRunning
SignalEffectSets_NoGuard(run, counts) ==
    counts["lane1"] + counts["lane2"] # 0

\* Variant: the effect returns early when lane1 alone has no vehicles
SignalEffectSets_Lane1(run, counts) == run /\ counts["lane1"] # 0

\* The signal time effect calls setSignalTimes at all
SignalEffectSets(run, counts) ==
    run /\ counts["lane1"] + counts["lane2"] # 0

\* The effect, had it tested the emergency flag of the active lane
LaneSwitchEffect_OwnFlag(run, al, es, st) ==
    IF ~run
    THEN [lane |-> al, timer |-> NoTimer, again |-> FALSE]
    ELSE IF es[al]
         THEN [lane |-> Other(al), timer |-> NoTimer, again |-> TRUE]
         ELSE [lane |-> al, timer |-> st[al], again |-> FALSE]

\* The effect, had it armed the timeout with the other lane's signal time
LaneSwitchEffect_OtherTime(run, al, es, st) ==
    IF ~run
    THEN [lane |-> al, timer |-> NoTimer, again |-> FALSE]
    ELSE IF es[Other(al)]
         THEN [lane |-> Other(al), timer |-> NoTimer, again |-> TRUE]
         ELSE [lane |-> al, timer |-> st[Other(al)], again |-> FALSE]

\* Variant: the timeout is armed with the initial 30 s whatever signalTimes is
LaneSwitchEffect_BaseTime(run, al, es, st) ==
    IF ~run THEN [lane |-> al, timer |-> NoTimer, again |-> FALSE]
    ELSE IF es[Other(al)]
         THEN [lane |-> Other(al), timer |-> NoTimer, again |-> TRUE]
         ELSE [lane |-> al, timer |-> BaseTime, again |-> FALSE]

\* The lane switching effect, run with the state (run, al, es, st): the lane
\* it leaves active, the timeout it arms, and whether it called setActiveLane
LaneSwitchEffect(run, al, es, st) ==
    IF ~run
    THEN [lane |-> al, timer |-> NoTimer, again |-> FALSE]
    ELSE IF es[Other(al)]
         THEN [lane |-> Other(al), timer |-> NoTimer, again |-> TRUE]
         ELSE [lane |-> al, timer |-> st[al], again |-> FALSE]

\* The render loop does not settle while both flags are true
Oscillating == isRunning /\ emergencyStatus["lane1"] /\ emergencyStatus["lane2"]

\* A callback or a command is taken when the renders have settled
Settled == ~pendingRender \/ Oscillating

\* The two models of modelUtils
Models == {"yolo", "audio"}

\* let yoloModel = null; let audioModel = null
NoModel == 0

EmptyCache ==
    [k \in Models |->
        [model |-> NoModel, created |-> 0, loading |-> 0, returned |-> {}]]

\* modelUtils before any call: no model cached
NoCall ==
    [yoloModel |-> FALSE, audioModel |-> FALSE,
     yolo  |-> [load |-> "none", threw |-> FALSE, fallback |-> FALSE,
                count |-> 0],
     audio |-> [load |-> "none", threw |-> FALSE, fallback |-> FALSE,
                siren |-> FALSE]]

----------------------------------------------------------------------------
\* Variant: the page comes up with lane2 active
Init_Lane2 ==
    /\ activeLane = "lane2"
    /\ vehicleCounts = [l \in Lanes |-> 0]
    /\ emergencyStatus = [l \in Lanes |-> FALSE]
    /\ signalTimes = [l \in Lanes |-> BaseTime]
    /\ isRunning = FALSE
    /\ switchTimer = NoTimer
    /\ pendingRender = FALSE
    /\ yoloTimer = NoTimer
    /\ yoloLane = "lane1"
    /\ audioTimer = NoTimer
    /\ clearTimers = [l \in Lanes |-> {}]
    /\ hasAnalyser \in BOOLEAN
    /\ grantLeft = 0
    /\ lastAction = [name |-> "Init", onset |-> {}]
    /\ countdown = BaseTime
    /\ adapter = NoCall
    /\ modelStatus = [yolo |-> "idle", audio |-> "idle"]
    /\ isSimulation = ~hasAnalyser
    /\ yoloAwait = [l \in Lanes |-> 0]
    /\ audioAwait = 0
    /\ yoloOrphans = {}
    /\ audioOrphans = {}
    /\ clock = 0
    /\ starts = 0
    /\ cache = EmptyCache

\* The state after the first render: the useState initial values, no timer
Init ==
    /\ activeLane = "lane1"
    /\ vehicleCounts = [l \in Lanes |-> 0]
    /\ emergencyStatus = [l \in Lanes |-> FALSE]
    /\ signalTimes = [l \in Lanes |-> BaseTime]
    /\ isRunning = FALSE
    /\ switchTimer = NoTimer
    /\ pendingRender = FALSE
    /\ yoloTimer = NoTimer
    /\ yoloLane = "lane1"
    /\ audioTimer = NoTimer
    /\ clearTimers = [l \in Lanes |-> {}]
    /\ hasAnalyser \in BOOLEAN
    /\ grantLeft = 0
    /\ lastAction = [name |-> "Init", onset |-> {}]
    /\ countdown = BaseTime
    /\ adapter = NoCall
    /\ modelStatus = [yolo |-> "idle", audio |-> "idle"]
    /\ isSimulation = ~hasAnalyser
    /\ yoloAwait = [l \in Lanes |-> 0]
    /\ audioAwait = 0
    /\ yoloOrphans = {}
    /\ audioOrphans = {}
    /\ clock = 0
    /\ starts = 0
    /\ cache = EmptyCache

\* TrafficSignal of the active lane: when isActive or timeRemaining changed,
\* its effect sets the countdown to timeRemaining and restarts the 1000 ms
\* interval; isRunning is not among its props
TrafficSignalEffect ==
    countdown' = IF activeLane' # activeLane
                    \/ signalTimes'[activeLane'] # signalTimes[activeLane]
                 THEN signalTimes'[activeLane']
                 ELSE countdown

\* The display and the history variables after an action named n
Observe(n, onset) ==
    /\ TrafficSignalEffect
    /\ lastAction' = [name |-> n, onset |-> onset]
    /\ grantLeft' = IF ~isRunning' THEN 0
                    ELSE IF activeLane' # activeLane \/ ~isRunning
                         THEN signalTimes'[activeLane']
                         ELSE grantLeft

\* An action in which the counts and the sirens are taken as given: the
\* models and the status display are left aside
History(n, onset) == Observe(n, onset) /\ UNCHANGED ctlVars

\* Variant: vehicleCounts is a dependency of the lane switching effect too
Commit_CountsDep(run, al, counts, es, laneDeps, sigDeps) ==
    LET sets == sigDeps /\ SignalEffectSets(run, counts)
        st   == IF sets THEN ComputeSignalTimes(counts) ELSE signalTimes
        eff  == LaneSwitchEffect(run, al, es, st)
    IN  /\ signalTimes' = st
        /\ IF laneDeps \/ sigDeps \/ sets
           THEN /\ activeLane' = eff.lane
                /\ switchTimer' = eff.timer
                /\ pendingRender' = eff.again
           ELSE /\ activeLane' = al
                /\ UNCHANGED <<switchTimer, pendingRender>>

\* A commit after the state became (run, al, counts, es): the signal time
\* effect when sigDeps changed, the lane switching effect when laneDeps
\* changed or signalTimes was set
Commit(run, al, counts, es, laneDeps, sigDeps) ==
    LET sets == sigDeps /\ SignalEffectSets(run, counts)
        st   == IF sets THEN ComputeSignalTimes(counts) ELSE signalTimes
        eff  == LaneSwitchEffect(run, al, es, st)
    IN  /\ signalTimes' = st
        /\ IF laneDeps \/ sets
           THEN /\ activeLane' = eff.lane
                /\ switchTimer' = eff.timer
                /\ pendingRender' = eff.again
           ELSE /\ activeLane' = al
                /\ UNCHANGED <<switchTimer, pendingRender>>

\* Variant: the Start Processing button is never disabled
StartDisabled_Never == FALSE

\* The disabled props of the Start Processing and Stop Processing buttons
StartDisabled == isRunning

StopDisabled == ~isRunning

\* handleStart and startProcessing.  The first model call that
\* startYoloProcessing and startAudioProcessing await resolves before any
\* other callback runs, so both intervals exist from the start on; the
\* interval's callback keeps the activeLane of the render that started it.
StartBody ==
    /\ Settled
    /\ ~StartDisabled
    /\ isRunning' = TRUE
    /\ yoloTimer' = YoloPeriod
    /\ yoloLane' = activeLane
    /\ audioTimer' = AudioPeriod
    /\ Commit(TRUE, activeLane, vehicleCounts, emergencyStatus, TRUE, TRUE)
    /\ UNCHANGED <<vehicleCounts, emergencyStatus, clearTimers, hasAnalyser>>

Start == StartBody /\ History("Start", {})

\* handleStop and stopProcessing
StopBody ==
    /\ Settled
    /\ ~StopDisabled
    /\ isRunning' = FALSE
    /\ yoloTimer' = NoTimer
    /\ audioTimer' = NoTimer
    /\ Commit(FALSE, activeLane, vehicleCounts, emergencyStatus, TRUE, TRUE)
    /\ UNCHANGED <<vehicleCounts, emergencyStatus, yoloLane, clearTimers,
                   hasAnalyser>>

Stop == StopBody /\ History("Stop", {})

\* The re-run of the lane switching effect after it called setActiveLane
Rerender ==
    /\ pendingRender
    /\ Commit(isRunning, activeLane, vehicleCounts, emergencyStatus, TRUE, FALSE)
    /\ UNCHANGED <<vehicleCounts, emergencyStatus, isRunning, yoloTimer,
                   yoloLane, audioTimer, clearTimers, hasAnalyser>>
    /\ History("Rerender", {})

\* The timeout of the lane switching effect fires: setActiveLane(newLane),
\* and the effect runs for the new lane
TimerExpire ==
    /\ Settled
    /\ switchTimer = 0
    /\ Commit(isRunning, Other(activeLane), vehicleCounts, emergencyStatus,
              TRUE, FALSE)
    /\ UNCHANGED <<vehicleCounts, emergencyStatus, isRunning, yoloTimer,
                   yoloLane, audioTimer, clearTimers, hasAnalyser>>
    /\ History("TimerExpire", {})

\* setVehicleCounts(prev => ({ ...prev, [lane]: count }))
handleVehicleCountUpdate(prev, lane, count) == [prev EXCEPT ![lane] = count]

\* Variant: the new object is built without spreading prev
handleEmergencyDetection_NoSpread(prev, lane, isEmergency) ==
    [l \in Lanes |-> IF l = lane THEN isEmergency ELSE FALSE]

\* setEmergencyStatus(prev => ({ ...prev, [lane]: isEmergency }))
handleEmergencyDetection(prev, lane, isEmergency) ==
    [prev EXCEPT ![lane] = isEmergency]

\* The queued updaters of one audio callback, lane1's first: each is applied
\* to the result of the one before it
ReportOnsets(prev, onset) ==
    LET s1 == IF "lane1" \in onset
              THEN handleEmergencyDetection(prev, "lane1", TRUE)
              ELSE prev
    IN  IF "lane2" \in onset
        THEN handleEmergencyDetection(s1, "lane2", TRUE)
        ELSE s1

\* The yolo interval's callback: onVehicleCountUpdate(activeLane, count)
YoloReport ==
    /\ Settled
    /\ yoloTimer = 0
    /\ \E count \in 0..MaxCount :
         /\ vehicleCounts' =
              handleVehicleCountUpdate(vehicleCounts, yoloLane, count)
         /\ Commit(isRunning, activeLane, vehicleCounts', emergencyStatus,
                   FALSE, TRUE)
    /\ yoloTimer' = YoloPeriod
    /\ UNCHANGED <<emergencyStatus, isRunning, yoloLane, audioTimer,
                   clearTimers, hasAnalyser>>
    /\ History("YoloReport", {})

\* Variant: lane2Emergency without its "&& !lane1Emergency"
AnalyserOnsets_Both(hasEmergency, rnd) ==
    {l \in Lanes : \/ l = "lane1" /\ hasEmergency /\ rnd
                   \/ l = "lane2" /\ hasEmergency}

\* The analyser branch of the audio callback: lane1Emergency = hasEmergency
\* && Math.random() < 0.5, lane2Emergency = hasEmergency && !lane1Emergency
AnalyserOnsets(hasEmergency, rnd) ==
    LET lane1Emergency == hasEmergency /\ rnd
        lane2Emergency == hasEmergency /\ ~lane1Emergency
    IN  {l \in Lanes : \/ l = "lane1" /\ lane1Emergency
                       \/ l = "lane2" /\ lane2Emergency}

\* simulateEmergencyDetection: each lane drawn on its own
SimulatedOnsets(lane1Emergency, lane2Emergency) ==
    {l \in Lanes : \/ l = "lane1" /\ lane1Emergency
                   \/ l = "lane2" /\ lane2Emergency}

\* The onsets one audio callback can report
Onsets ==
    IF hasAnalyser
    THEN {AnalyserOnsets(h, r) : h \in BOOLEAN, r \in BOOLEAN}
    ELSE {SimulatedOnsets(a, b) : a \in BOOLEAN, b \in BOOLEAN}

\* The audio interval's callback: handleEmergencyUpdate for both lanes
AudioPoll ==
    /\ Settled
    /\ audioTimer = 0
    /\ \E onset \in Onsets :
         /\ emergencyStatus' = ReportOnsets(emergencyStatus, onset)
         /\ clearTimers' =
              [l \in Lanes |-> IF l \in onset
                               THEN clearTimers[l] \cup {ClearDelay}
                               ELSE clearTimers[l]]
         /\ Commit(isRunning, activeLane, vehicleCounts, emergencyStatus',
                   onset # {}, FALSE)
         /\ audioTimer' = AudioPeriod
         /\ UNCHANGED <<vehicleCounts, isRunning, yoloTimer, yoloLane,
                        hasAnalyser>>
         /\ History("AudioPoll", onset)

\* Variant: the timeout runs but leaves the flag as it is
ClearEmergency_Keep(lane) ==
    /\ Settled
    /\ 0 \in clearTimers[lane]
    /\ clearTimers' = [clearTimers EXCEPT ![lane] = @ \ {0}]
    /\ emergencyStatus' = emergencyStatus
    /\ Commit(isRunning, activeLane, vehicleCounts, emergencyStatus', TRUE, FALSE)
    /\ UNCHANGED <<vehicleCounts, isRunning, yoloTimer, yoloLane, audioTimer,
                   hasAnalyser>>
    /\ History("ClearEmergency", {lane})

\* The timeout of handleEmergencyUpdate: onEmergencyDetection(lane, false)
ClearEmergency(lane) ==
    /\ Settled
    /\ 0 \in clearTimers[lane]
    /\ clearTimers' = [clearTimers EXCEPT ![lane] = @ \ {0}]
    /\ emergencyStatus' = handleEmergencyDetection(emergencyStatus, lane, FALSE)
    /\ Commit(isRunning, activeLane, vehicleCounts, emergencyStatus', TRUE, FALSE)
    /\ UNCHANGED <<vehicleCounts, isRunning, yoloTimer, yoloLane, audioTimer,
                   hasAnalyser>>
    /\ History("ClearEmergency", {lane})

Dec(t) == IF t = NoTimer THEN NoTimer ELSE t - 1

\* No callback is due
NothingDue ==
    /\ switchTimer # 0
    /\ yoloTimer # 0
    /\ audioTimer # 0
    /\ \A l \in Lanes : 0 \notin clearTimers[l]

\* One second passes
Tick ==
    /\ Settled
    /\ NothingDue
    /\ switchTimer' = Dec(switchTimer)
    /\ yoloTimer' = Dec(yoloTimer)
    /\ audioTimer' = Dec(audioTimer)
    /\ clearTimers' = [l \in Lanes |-> {t - 1 : t \in clearTimers[l]}]
    /\ grantLeft' = Max(0, grantLeft - 1)
    /\ lastAction' = [name |-> "Tick", onset |-> {}]
    /\ countdown' = Max(0, countdown - 1)
    /\ UNCHANGED <<activeLane, vehicleCounts, emergencyStatus, signalTimes,
                   isRunning, pendingRender, yoloLane, hasAnalyser>>
    /\ UNCHANGED ctlVars

Next ==
    \/ Start
    \/ Stop
    \/ Rerender
    \/ TimerExpire
    \/ YoloReport
    \/ AudioPoll
    \/ \E lane \in Lanes : ClearEmergency(lane)
    \/ Tick

Spec == Init /\ [][Next]_vars

\* The timers fire when due and the clock advances; the user is free
FairSpec ==
    /\ Spec
    /\ WF_vars(Tick)
    /\ WF_vars(Rerender)
    /\ WF_vars(TimerExpire)
    /\ WF_vars(YoloReport)
    /\ WF_vars(AudioPoll)
    /\ \A lane \in Lanes : WF_vars(ClearEmergency(lane))

----------------------------------------------------------------------------
(* Properties *)

\* The audio callback reported an onset for exactly the lanes in s
Reported(s) == AudioPoll /\ lastAction'.onset = s

\* C1: in a settled Running state with active lane A, an audio callback that
\* reports the other lane B makes B the active lane, and the re-run of the
\* effect leaves B active with a timeout of signalTimes[B].
C1_Preemption ==
    [][ /\ (isRunning /\ ~pendingRender /\ AudioPoll
              /\ Other(activeLane) \in lastAction'.onset)
            => activeLane' = Other(activeLane)
        /\ (isRunning /\ Rerender)
            => (activeLane' = activeLane
                  /\ switchTimer' = signalTimes'[activeLane']) ]_vars

\* C2: while Running, an active lane does not stay active for ever: the
\* session stops or the other lane becomes active.
C2_NoMonopoly ==
    \A l \in Lanes :
        (isRunning /\ activeLane = l) ~> (~isRunning \/ activeLane # l)

\* C3: when the lane switching timeout fires, the other lane becomes active
\* and its timeout is armed with its current signalTimes value.
C3_CycleCompletion ==
    [][ TimerExpire =>
          /\ activeLane' = Other(activeLane)
          /\ switchTimer' = signalTimes'[activeLane']
          /\ ~pendingRender' ]_vars

\* C3 witness: the timeout has just fired and lane2 holds a full green time
C3_Witness ==
    /\ lastAction.name = "TimerExpire"
    /\ isRunning
    /\ activeLane = "lane2"
    /\ switchTimer = signalTimes["lane2"]

\* C4: the timeout never ends a green phase before the time the lane was
\* given when it became active has passed.
C4_NoTruncation ==
    [][ TimerExpire => grantLeft = 0 ]_vars

\* C5: between stop and the next start no callback changes emergencyStatus,
\* vehicleCounts, signalTimes or activeLane.
C5_StopCancels ==
    [][ (~isRunning /\ ~isRunning')
          => UNCHANGED <<emergencyStatus, vehicleCounts, signalTimes,
                         activeLane>> ]_vars

\* C6: while Running, activeLane changes only when the timeout fires or when
\* the emergency flag of the lane that becomes active goes from false to true.
C6_SwitchCauses ==
    [][ (isRunning /\ isRunning' /\ activeLane' # activeLane)
          => \/ TimerExpire
             \/ (~emergencyStatus[activeLane'] /\ emergencyStatus'[activeLane'])
      ]_vars

\* C7: when one audio callback reports both lanes while Running, the lane
\* that was inactive becomes active, and the re-run of the effect leaves it
\* active (one switch).
C7_SimultaneousEmergency ==
    [][ /\ (isRunning /\ ~pendingRender /\ Reported(Lanes))
            => activeLane' = Other(activeLane)
        /\ (isRunning /\ lastAction = [name |-> "AudioPoll", onset |-> Lanes]
              /\ Rerender)
            => (activeLane' = activeLane /\ ~pendingRender') ]_vars

\* C8: in a settled Running state, an audio callback that reports only the
\* active lane leaves activeLane unchanged and asks for no further switch.
C8_NoSelfPreemption ==
    [][ (isRunning /\ ~pendingRender /\ Reported({activeLane}))
          => (activeLane' = activeLane /\ ~pendingRender') ]_vars

\* C8 witness: the active lane's own emergency was just reported
C8_Witness ==
    /\ lastAction = [name |-> "AudioPoll", onset |-> {activeLane}]
    /\ isRunning
    /\ ~pendingRender
    /\ emergencyStatus[activeLane]
    /\ ~emergencyStatus[Other(activeLane)]
    /\ switchTimer = signalTimes[activeLane]

\* C9: in a settled Running state, a report of the active lane's emergency,
\* and the clearing of an emergency flag, leave activeLane and the time left
\* on the lane switching timeout unchanged.
C9_NoRetime ==
    [][ (isRunning /\ ~pendingRender
           /\ (Reported({activeLane}) \/ \E l \in Lanes : ClearEmergency(l)))
          => (activeLane' = activeLane /\ switchTimer' = switchTimer) ]_vars

\* C10: a lane's flag is true for as long as a detection for that lane is
\* less than ClearDelay seconds old (its clear timeout is still pending).
C10_Dwell ==
    \A l \in Lanes : clearTimers[l] # {} => emergencyStatus[l]

\* C11: a count report made while Running changes only the count of the lane
\* that is active when the report is made.
C11_ReportLane ==
    [][ (isRunning /\ ~pendingRender /\ YoloReport)
          => vehicleCounts'[Other(activeLane)]
               = vehicleCounts[Other(activeLane)] ]_vars

\* C12: while Stopped, a second passing leaves the countdown shown for the
\* active lane as it was.
C12_FrozenWhileStopped ==
    [][ (~isRunning /\ Tick) => countdown' = countdown ]_vars

\* The isActive prop Index passes to the TrafficSignal of a lane
IsActive(lane) == activeLane = lane

\* C13: exactly one lane is presented as active in a Running state, and no
\* lane is presented as active in a Stopped state.
C13_ActiveLanes ==
    LET shown == {l \in Lanes : IsActive(l)}
    IN  IF isRunning THEN Cardinality(shown) = 1 ELSE shown = {}

\* C14: in every reachable state the green time of either lane is between
\* MinTime and MaxTime seconds.
C14_TimesInRange ==
    \A l \in Lanes : signalTimes[l] >= MinTime /\ signalTimes[l] <= MaxTime

\* C14 witness: a report gave lane1 a share of 0, which the clamp raised to
\* MinTime
C14_Witness ==
    /\ lastAction.name = "YoloReport"
    /\ isRunning
    /\ vehicleCounts["lane1"] = 0
    /\ vehicleCounts["lane2"] > 0
    /\ signalTimes["lane1"] = MinTime

----------------------------------------------------------------------------
(* The timing policy on its own: start pressed with any counts on the page *)

PolicyInit ==
    /\ activeLane = "lane1"
    /\ vehicleCounts \in [Lanes -> 0..MaxPolicyCount]
    /\ emergencyStatus = [l \in Lanes |-> FALSE]
    /\ signalTimes = [l \in Lanes |-> BaseTime]
    /\ isRunning = FALSE
    /\ switchTimer = NoTimer
    /\ pendingRender = FALSE
    /\ yoloTimer = NoTimer
    /\ yoloLane = "lane1"
    /\ audioTimer = NoTimer
    /\ clearTimers = [l \in Lanes |-> {}]
    /\ hasAnalyser \in BOOLEAN
    /\ grantLeft = 0
    /\ lastAction = [name |-> "Init", onset |-> {}]
    /\ countdown = BaseTime
    /\ adapter = NoCall
    /\ modelStatus = [yolo |-> "idle", audio |-> "idle"]
    /\ isSimulation = ~hasAnalyser
    /\ yoloAwait = [l \in Lanes |-> 0]
    /\ audioAwait = 0
    /\ yoloOrphans = {}
    /\ audioOrphans = {}
    /\ clock = 0
    /\ starts = 0
    /\ cache = EmptyCache

\* The signal time effect runs once, on the change of isRunning
PolicySpec == PolicyInit /\ [][Start]_vars

\* r is 30 * n / total rounded to the nearest integer, halves rounded up
IsRounded(r, n, total) ==
    /\ (2 * r - 1) * total <= 60 * n
    /\ 60 * n < (2 * r + 1) * total

\* C15: when the total count is positive, the green time of each lane is
\* 30 * count / total rounded to the nearest integer (halves up) and then
\* limited to [15, 60], each lane on its own; counts 10 and 30 give 15 and 23.
C15_TimingPolicy ==
    (isRunning /\ vehicleCounts["lane1"] + vehicleCounts["lane2"] > 0) =>
        /\ \A l \in Lanes :
             \E r \in 0..30 :
                /\ IsRounded(r, vehicleCounts[l],
                             vehicleCounts["lane1"] + vehicleCounts["lane2"])
                /\ signalTimes[l] = Min(60, Max(15, r))
        /\ vehicleCounts = [lane1 |-> 10, lane2 |-> 30]
             => signalTimes = [lane1 |-> 15, lane2 |-> 23]

\* C15 witness: counts 3 and 1 give shares 22.5 and 7.5, rounded up to 23
\* and 8, the latter raised to 15
C15_Witness ==
    /\ isRunning
    /\ vehicleCounts = [lane1 |-> 3, lane2 |-> 1]
    /\ signalTimes = [lane1 |-> 23, lane2 |-> 15]

\* C16: a count report that leaves the total count at 0 leaves signalTimes
\* exactly as it was and restarts neither the lane switching timeout nor the
\* displayed countdown.
C16_ZeroTotal ==
    [][ (YoloReport /\ vehicleCounts'["lane1"] + vehicleCounts'["lane2"] = 0)
          => UNCHANGED <<signalTimes, activeLane, switchTimer, countdown>>
      ]_vars

\* C16 witness: a report made the total 0 after an earlier report had moved
\* signalTimes off its initial value, and the timeout kept running
C16_Witness ==
    /\ lastAction.name = "YoloReport"
    /\ isRunning
    /\ vehicleCounts = [l \in Lanes |-> 0]
    /\ signalTimes # [l \in Lanes |-> BaseTime]
    /\ switchTimer # NoTimer
    /\ switchTimer < signalTimes[activeLane]

\* C17: while Running with a positive total count, signalTimes is the timing
\* policy applied to the latest vehicleCounts, after every count report;
\* counts 5 and 15 give 15 and 23.
C17_TimesFollowCounts ==
    /\ (isRunning /\ vehicleCounts["lane1"] + vehicleCounts["lane2"] > 0)
         => signalTimes = ComputeSignalTimes(vehicleCounts)
    /\ ComputeSignalTimes([lane1 |-> 5, lane2 |-> 15])
         = [lane1 |-> 15, lane2 |-> 23]

\* C17 witness: a report has just changed signalTimes while Running
C17_Witness ==
    /\ lastAction.name = "YoloReport"
    /\ isRunning
    /\ vehicleCounts = [lane1 |-> 2, lane2 |-> 1]
    /\ signalTimes = [lane1 |-> 20, lane2 |-> 15]

\* C18: start has no effect in a Running state and stop has none in a
\* Stopped state: no step of handleStart leaves a Running state and no step
\* of handleStop a Stopped one, so the polling intervals are never doubled.
C18_Idempotent ==
    [][ (Start => ~isRunning) /\ (Stop => isRunning) ]_vars

\* C18 witness: Running, the Start Processing button disabled, both intervals
\* in mid-period
C18_Witness ==
    /\ isRunning
    /\ StartDisabled
    /\ ~StopDisabled
    /\ lastAction.name = "Tick"
    /\ yoloTimer = 1
    /\ audioTimer = 2

\* C19: stop leaves activeLane and signalTimes as they were, and the next
\* start leaves them as they were too and arms the timeout with the full
\* signalTimes[activeLane].
C19_Resume ==
    [][ /\ Stop => UNCHANGED <<activeLane, signalTimes>>
        /\ Start => /\ UNCHANGED <<activeLane, signalTimes>>
                    /\ switchTimer' = signalTimes[activeLane]
                    /\ ~pendingRender' ]_vars

----------------------------------------------------------------------------
(* The detection adapter (modelUtils) and the calls ModelController makes *)
(* through it.  Time is left aside here: a callback of a live interval    *)
(* runs whenever it likes.                                                *)

\* loadYoloModel / loadAudioModel: the cached model, or pipeline(), whose
\* failure is logged and thrown again; the cache is set on success only
LoadModel(cached, loadOk) ==
    IF cached THEN [threw |-> FALSE, model |-> TRUE, load |-> "cached"]
    ELSE IF loadOk THEN [threw |-> FALSE, model |-> TRUE, load |-> "ok"]
         ELSE [threw |-> TRUE, model |-> FALSE, load |-> "failed"]

\* Variant: the fallback count shifted down by one instead of up
FallbackYoloSimulation_Minus(rnd) == rnd - 1

\* fallbackYoloSimulation: Math.floor(Math.random() * 10) + 1
FallbackYoloSimulation(rnd) == rnd + 1

\* The try block of runYoloModel: load, infer, count the vehicle boxes
TryYoloModel(cached, loadOk, inferOk, boxes) ==
    LET m == LoadModel(cached, loadOk)
    IN  IF m.threw \/ ~inferOk
        THEN [threw |-> TRUE, model |-> m.model, load |-> m.load, count |-> 0]
        ELSE [threw |-> FALSE, model |-> m.model, load |-> m.load,
              count |-> boxes]

\* Variant: runYoloModel without its catch block
RunYoloModel_Rethrow(cached, loadOk, inferOk, boxes, rnd) ==
    LET try == TryYoloModel(cached, loadOk, inferOk, boxes)
    IN  [threw |-> try.threw, fallback |-> FALSE, model |-> try.model,
         load |-> try.load, count |-> try.count]

\* runYoloModel: the catch block returns fallbackYoloSimulation()
RunYoloModel(cached, loadOk, inferOk, boxes, rnd) ==
    LET try == TryYoloModel(cached, loadOk, inferOk, boxes)
    IN  IF try.threw
        THEN [threw |-> FALSE, fallback |-> TRUE, model |-> try.model,
              load |-> try.load, count |-> FallbackYoloSimulation(rnd)]
        ELSE [threw |-> FALSE, fallback |-> FALSE, model |-> try.model,
              load |-> try.load, count |-> try.count]

\* runAudioModel: true when a siren class scores above the threshold; the
\* catch block returns fallbackAudioSimulation() (Math.random() < 0.1)
RunAudioModel(cached, loadOk, inferOk, siren, sim) ==
    LET m == LoadModel(cached, loadOk)
    IN  IF m.threw \/ ~inferOk
        THEN [threw |-> FALSE, fallback |-> TRUE, model |-> m.model,
              load |-> m.load, siren |-> sim]
        ELSE [threw |-> FALSE, fallback |-> FALSE, model |-> m.model,
              load |-> m.load, siren |-> siren]

\* What a call can meet: the load and the inference succeed or fail, the
\* inference finds some vehicles, and Math.random() is drawn by the fallback
Failures == {f \in [loadOk : BOOLEAN, inferOk : BOOLEAN] :
                ~(f.loadOk /\ f.inferOk)}

YoloInputs ==
    {[loadOk |-> TRUE, inferOk |-> TRUE, boxes |-> b, rnd |-> 0] :
        b \in 0..MaxDetections}
    \cup {[loadOk |-> f.loadOk, inferOk |-> f.inferOk, boxes |-> 0, rnd |-> r] :
            f \in Failures, r \in 0..(FallbackSpan - 1)}

AudioInputs ==
    {[loadOk |-> TRUE, inferOk |-> TRUE, siren |-> b, sim |-> FALSE] :
        b \in BOOLEAN}
    \cup {[loadOk |-> f.loadOk, inferOk |-> f.inferOk, siren |-> FALSE,
            sim |-> b] : f \in Failures, b \in BOOLEAN}

\* modelUtils after the calls that returned y and a
Called(y, a) ==
    [yoloModel |-> y.model, audioModel |-> a.model,
     yolo  |-> [load |-> y.load, threw |-> y.threw, fallback |-> y.fallback,
                count |-> y.count],
     audio |-> [load |-> a.load, threw |-> a.threw, fallback |-> a.fallback,
                siren |-> a.siren]]

\* handleStart with startYoloProcessing and startAudioProcessing run through
\* the adapter: the status is "running" unless the awaited call rejected
AdapterStart ==
    /\ StartBody
    /\ \E yin \in YoloInputs, ain \in AudioInputs :
         LET y == RunYoloModel(adapter.yoloModel, yin.loadOk, yin.inferOk,
                               yin.boxes, yin.rnd)
             a == RunAudioModel(adapter.audioModel, ain.loadOk, ain.inferOk,
                                ain.siren, ain.sim)
         IN  /\ adapter' = Called(y, a)
             /\ modelStatus' =
                  [yolo  |-> IF y.threw THEN "error" ELSE "running",
                   audio |-> IF a.threw THEN "error" ELSE "running"]
             /\ isSimulation' = (isSimulation \/ y.threw \/ a.threw)
    /\ UNCHANGED raceVars
    /\ Observe("Start", {})

\* handleStop with stopYoloProcessing and stopAudioProcessing
AdapterStop ==
    /\ StopBody
    /\ modelStatus' = [yolo |-> "idle", audio |-> "idle"]
    /\ UNCHANGED <<adapter, isSimulation, raceVars>>
    /\ Observe("Stop", {})

\* The yolo interval's callback run through the adapter: the count of
\* runYoloModel is passed to onVehicleCountUpdate; a rejection is caught
AdapterYoloReport ==
    /\ Settled
    /\ yoloTimer # NoTimer
    /\ \E yin \in YoloInputs :
         LET y == RunYoloModel(adapter.yoloModel, yin.loadOk, yin.inferOk,
                               yin.boxes, yin.rnd)
         IN  /\ adapter' = [adapter EXCEPT
                              !.yoloModel = y.model,
                              !.yolo = [load |-> y.load, threw |-> y.threw,
                                        fallback |-> y.fallback,
                                        count |-> y.count]]
             /\ IF y.threw
                THEN /\ isSimulation' = TRUE
                     /\ UNCHANGED <<vehicleCounts, signalTimes, activeLane,
                                    switchTimer, pendingRender>>
                ELSE /\ isSimulation' = isSimulation
                     /\ vehicleCounts' =
                          handleVehicleCountUpdate(vehicleCounts, yoloLane,
                                                   y.count)
                     /\ Commit(isRunning, activeLane, vehicleCounts',
                               emergencyStatus, FALSE, TRUE)
    /\ UNCHANGED <<emergencyStatus, isRunning, yoloTimer, yoloLane, audioTimer,
                   clearTimers, hasAnalyser, modelStatus, raceVars>>
    /\ Observe("YoloReport", {})

\* The audio interval's callback run through the adapter: with an analyser
\* the result of runAudioModel is attributed to a lane, without one the
\* detection is simulated
AdapterAudioPoll ==
    /\ Settled
    /\ audioTimer # NoTimer
    /\ \E ain \in AudioInputs, rnd \in BOOLEAN, sim \in BOOLEAN :
         LET a == RunAudioModel(adapter.audioModel, ain.loadOk, ain.inferOk,
                                ain.siren, ain.sim)
             onset == IF hasAnalyser THEN AnalyserOnsets(a.siren, rnd)
                      ELSE SimulatedOnsets(rnd, sim)
         IN  /\ adapter' =
                  IF hasAnalyser
                  THEN [adapter EXCEPT
                          !.audioModel = a.model,
                          !.audio = [load |-> a.load, threw |-> a.threw,
                                     fallback |-> a.fallback,
                                     siren |-> a.siren]]
                  ELSE adapter
             /\ emergencyStatus' = ReportOnsets(emergencyStatus, onset)
             /\ clearTimers' =
                  [l \in Lanes |-> IF l \in onset
                                   THEN clearTimers[l] \cup {ClearDelay}
                                   ELSE clearTimers[l]]
             /\ Commit(isRunning, activeLane, vehicleCounts, emergencyStatus',
                       onset # {}, FALSE)
             /\ UNCHANGED <<vehicleCounts, isRunning, yoloTimer, yoloLane,
                            audioTimer, hasAnalyser, modelStatus, isSimulation,
                            raceVars>>
             /\ Observe("AudioPoll", onset)

\* The clearing timeout of a lane, at whatever time it comes due
AdapterClearEmergency(lane) ==
    /\ Settled
    /\ clearTimers[lane] # {}
    /\ clearTimers' = [clearTimers EXCEPT ![lane] = {}]
    /\ emergencyStatus' = handleEmergencyDetection(emergencyStatus, lane, FALSE)
    /\ Commit(isRunning, activeLane, vehicleCounts, emergencyStatus', TRUE, FALSE)
    /\ UNCHANGED <<vehicleCounts, isRunning, yoloTimer, yoloLane, audioTimer,
                   hasAnalyser>>
    /\ History("ClearEmergency", {lane})

AdapterNext == AdapterStart \/ AdapterStop \/ AdapterYoloReport

\* The siren detection on its own: the audio callbacks of a session run
\* through the adapter, with the renders and clearing timeouts they cause
SirenNext ==
    \/ AdapterStart
    \/ AdapterStop
    \/ AdapterAudioPoll
    \/ Rerender
    \/ \E lane \in Lanes : AdapterClearEmergency(lane)

SirenSpec == Init /\ [][SirenNext]_vars

AdapterSpec == Init /\ [][AdapterNext]_vars

\* C21: runYoloModel and runAudioModel never reject; a call that fell back
\* returns a count of 1..10 or a boolean, and after a failed load or
\* inference the polling intervals of a Running session are still live.
C21_AlwaysYields ==
    /\ ~adapter.yolo.threw
    /\ ~adapter.audio.threw
    /\ adapter.yolo.fallback => adapter.yolo.count \in 1..10
    /\ adapter.audio.siren \in BOOLEAN
    /\ isRunning => (yoloTimer # NoTimer /\ audioTimer # NoTimer)

\* C21 witness: the model failed to load in an interval callback and the
\* fallback count 10 was stored for lane1
C21_Witness ==
    /\ lastAction.name = "YoloReport"
    /\ isRunning
    /\ adapter.yolo.load = "failed"
    /\ adapter.yolo.fallback
    /\ adapter.yolo.count = 10
    /\ vehicleCounts["lane1"] = 10
    /\ adapter.audio.load = "failed"
    /\ adapter.audio.fallback

\* C22: when the load of a model failed in the call awaited at start, the
\* status of that model is "error" or isSimulation is set, and the status is
\* not "running".
C22_DegradedSurfaced ==
    (isRunning /\ lastAction.name = "Start") =>
        /\ adapter.yolo.load = "failed"
             => /\ modelStatus.yolo = "error" \/ isSimulation
                /\ modelStatus.yolo # "running"
        /\ adapter.audio.load = "failed"
             => /\ modelStatus.audio = "error" \/ isSimulation
                /\ modelStatus.audio # "running"

\* C23: in every reachable state the count of either lane is a non-negative
\* integer, whether the stored count came from an inference or from the
\* fallback.
C23_CountsNonNegative ==
    \A l \in Lanes : vehicleCounts[l] \in Nat

\* C23 witness: an inference that found no vehicle replaced a fallback count
C23_Witness ==
    /\ lastAction.name = "YoloReport"
    /\ isRunning
    /\ ~adapter.yolo.fallback
    /\ adapter.yolo.load = "cached"
    /\ adapter.yolo.count = 0
    /\ vehicleCounts["lane1"] = 0
    /\ signalTimes # [l \in Lanes |-> BaseTime]

\* C24: an emergency flag that is true is eventually false again.
C24_FlagClears ==
    \A l \in Lanes : emergencyStatus[l] ~> ~emergencyStatus[l]

\* C24 witness: the clear timeout of lane1 has just set its flag to false
C24_Witness ==
    /\ lastAction = [name |-> "ClearEmergency", onset |-> {"lane1"}]
    /\ ~emergencyStatus["lane1"]
    /\ clearTimers["lane1"] = {}

\* C25: before the first command the system is Stopped with lane1 active,
\* 30 s for both lanes, no vehicles counted and no emergency flagged.
C25_InitialState ==
    lastAction.name = "Init" =>
        /\ ~isRunning
        /\ activeLane = "lane1"
        /\ signalTimes = [lane1 |-> 30, lane2 |-> 30]
        /\ vehicleCounts = [lane1 |-> 0, lane2 |-> 0]
        /\ emergencyStatus = [lane1 |-> FALSE, lane2 |-> FALSE]

\* C25 witness: the page as first rendered, lane1 shown with 30 s
C25_Witness ==
    /\ lastAction.name = "Init"
    /\ ~isRunning
    /\ activeLane = "lane1"
    /\ countdown = 30
    /\ switchTimer = NoTimer
    /\ yoloTimer = NoTimer
    /\ audioTimer = NoTimer

----------------------------------------------------------------------------
(* The asynchronous start: startYoloProcessing and startAudioProcessing    *)
(* create their intervals only after an awaited model call, which may take *)
(* any time.  The first MaxClock seconds after the page came up are        *)
(* followed; no lane switching timeout can fire in them, because a timeout *)
(* is armed with MinTime seconds at least.                                 *)

\* handleStart: isRunning is set and both start functions run up to their
\* await, with the activeLane of the current render in their closure
RaceStartBody ==
    /\ Settled
    /\ ~StartDisabled
    /\ starts < MaxStarts
    /\ starts' = starts + 1
    /\ isRunning' = TRUE
    /\ yoloAwait' = [yoloAwait EXCEPT ![activeLane] = @ + 1]
    /\ audioAwait' = audioAwait + 1
    /\ modelStatus' = [yolo |-> "loading", audio |-> "loading"]
    /\ Commit(TRUE, activeLane, vehicleCounts, emergencyStatus, TRUE, TRUE)
    /\ UNCHANGED <<vehicleCounts, emergencyStatus, clearTimers, hasAnalyser,
                   yoloTimer, yoloLane, audioTimer, yoloOrphans, audioOrphans,
                   clock, adapter, isSimulation>>
    /\ Observe("Start", {})

RaceStart == RaceStartBody /\ UNCHANGED cache

\* startYoloProcessing after its await: the interval is created and stored
\* in yoloIntervalRef, whatever isRunning is by now; an interval the ref
\* held is not cleared
YoloLoadedBody(lane) ==
    /\ Settled
    /\ yoloAwait[lane] > 0
    /\ yoloAwait' = [yoloAwait EXCEPT ![lane] = @ - 1]
    /\ modelStatus' = [modelStatus EXCEPT !.yolo = "running"]
    /\ yoloOrphans' = IF yoloTimer = NoTimer THEN yoloOrphans
                      ELSE yoloOrphans \cup {[t |-> yoloTimer, lane |-> yoloLane]}
    /\ yoloTimer' = YoloPeriod
    /\ yoloLane' = lane
    /\ lastAction' = [name |-> "YoloLoaded", onset |-> {}]
    /\ UNCHANGED <<activeLane, vehicleCounts, emergencyStatus, signalTimes,
                   isRunning, switchTimer, pendingRender, audioTimer,
                   clearTimers, hasAnalyser, grantLeft, countdown, adapter,
                   isSimulation, audioAwait, audioOrphans, clock,
                   starts>>

YoloLoaded(lane) == YoloLoadedBody(lane) /\ UNCHANGED cache

\* startAudioProcessing after its await
AudioLoadedBody ==
    /\ Settled
    /\ audioAwait > 0
    /\ audioAwait' = audioAwait - 1
    /\ modelStatus' = [modelStatus EXCEPT !.audio = "running"]
    /\ audioOrphans' = IF audioTimer = NoTimer THEN audioOrphans
                       ELSE audioOrphans \cup {audioTimer}
    /\ audioTimer' = AudioPeriod
    /\ lastAction' = [name |-> "AudioLoaded", onset |-> {}]
    /\ UNCHANGED <<activeLane, vehicleCounts, emergencyStatus, signalTimes,
                   isRunning, switchTimer, pendingRender, yoloTimer, yoloLane,
                   clearTimers, hasAnalyser, grantLeft, countdown, adapter,
                   isSimulation, yoloAwait, yoloOrphans, clock,
                   starts>>

AudioLoaded == AudioLoadedBody /\ UNCHANGED cache

\* The callback of a yolo interval the ref no longer holds
OrphanYoloReport ==
    /\ Settled
    /\ \E o \in yoloOrphans, count \in 0..MaxCount :
         /\ o.t = 0
         /\ vehicleCounts' =
              handleVehicleCountUpdate(vehicleCounts, o.lane, count)
         /\ Commit(isRunning, activeLane, vehicleCounts', emergencyStatus,
                   FALSE, TRUE)
         /\ yoloOrphans' = (yoloOrphans \ {o})
                             \cup {[t |-> YoloPeriod, lane |-> o.lane]}
    /\ UNCHANGED <<emergencyStatus, isRunning, yoloTimer, yoloLane, audioTimer,
                   clearTimers, hasAnalyser, adapter, modelStatus,
                   isSimulation, yoloAwait, audioAwait, audioOrphans, clock,
                   starts, cache>>
    /\ Observe("YoloReport", {})

\* The callback of an audio interval the ref no longer holds
OrphanAudioPoll ==
    /\ Settled
    /\ 0 \in audioOrphans
    /\ \E onset \in Onsets :
         /\ emergencyStatus' = ReportOnsets(emergencyStatus, onset)
         /\ clearTimers' =
              [l \in Lanes |-> IF l \in onset
                               THEN clearTimers[l] \cup {ClearDelay}
                               ELSE clearTimers[l]]
         /\ Commit(isRunning, activeLane, vehicleCounts, emergencyStatus',
                   onset # {}, FALSE)
         /\ audioOrphans' = (audioOrphans \ {0}) \cup {AudioPeriod}
         /\ UNCHANGED <<vehicleCounts, isRunning, yoloTimer, yoloLane,
                        audioTimer, hasAnalyser, adapter, modelStatus,
                        isSimulation, yoloAwait, audioAwait, yoloOrphans,
                        clock, starts, cache>>
         /\ Observe("AudioPoll", onset)

\* One second passes, while no callback is due and the horizon is not reached
RaceTick ==
    /\ Settled
    /\ NothingDue
    /\ \A o \in yoloOrphans : o.t # 0
    /\ 0 \notin audioOrphans
    /\ clock < MaxClock
    /\ clock' = clock + 1
    /\ switchTimer' = Dec(switchTimer)
    /\ yoloTimer' = Dec(yoloTimer)
    /\ audioTimer' = Dec(audioTimer)
    /\ clearTimers' = [l \in Lanes |-> {t - 1 : t \in clearTimers[l]}]
    /\ yoloOrphans' = {[t |-> o.t - 1, lane |-> o.lane] : o \in yoloOrphans}
    /\ audioOrphans' = {t - 1 : t \in audioOrphans}
    /\ grantLeft' = Max(0, grantLeft - 1)
    /\ lastAction' = [name |-> "Tick", onset |-> {}]
    /\ countdown' = Max(0, countdown - 1)
    /\ UNCHANGED <<activeLane, vehicleCounts, emergencyStatus, signalTimes,
                   isRunning, pendingRender, yoloLane, hasAnalyser, adapter,
                   modelStatus, isSimulation, yoloAwait, audioAwait, starts,
                   cache>>

RaceNext ==
    \/ RaceStart
    \/ AdapterStop
    \/ \E lane \in Lanes : YoloLoaded(lane)
    \/ AudioLoaded
    \/ Rerender
    \/ YoloReport
    \/ AudioPoll
    \/ \E lane \in Lanes : ClearEmergency(lane)
    \/ OrphanYoloReport
    \/ OrphanAudioPoll
    \/ RaceTick

RaceSpec == Init /\ [][RaceNext]_vars

\* C26: while Stopped, no callback changes activeLane or signalTimes, and no
\* lane switching timeout is pending: a count report or an emergency report
\* that arrives late is stored and nothing else happens.
C26_StoppedFrame ==
    [][ (~isRunning /\ ~isRunning')
          => /\ UNCHANGED <<activeLane, signalTimes>>
             /\ switchTimer' = NoTimer
             /\ ~pendingRender' ]_vars

\* C26 witness: Stopped with lane1 active; a late report stored a count for
\* lane1 and a late audio callback has just flagged lane2
C26_Witness ==
    /\ ~isRunning
    /\ lastAction = [name |-> "AudioPoll", onset |-> {"lane2"}]
    /\ activeLane = "lane1"
    /\ emergencyStatus["lane2"]
    /\ vehicleCounts["lane1"] > 0
    /\ signalTimes = [l \in Lanes |-> BaseTime]

\* Live intervals of each kind: the one the ref holds and the others
LiveYolo == (IF yoloTimer # NoTimer THEN 1 ELSE 0) + Cardinality(yoloOrphans)

LiveAudio == (IF audioTimer # NoTimer THEN 1 ELSE 0) + Cardinality(audioOrphans)

\* C27: in every state at most one yolo interval and at most one audio
\* interval is live, and none is live while Stopped: a start whose await
\* ends after stop creates no interval.
C27_OneIntervalSet ==
    /\ LiveYolo <= 1
    /\ LiveAudio <= 1
    /\ ~isRunning => (LiveYolo = 0 /\ LiveAudio = 0)

\* C28: in every Running state with the lane switching timeout armed, the
\* seconds shown for the active lane equal the seconds left before the
\* timeout switches lanes.
C28_DisplayAgrees ==
    (isRunning /\ ~pendingRender /\ switchTimer # NoTimer)
        => countdown = switchTimer

\* C29: in every reachable state the green time of either lane is at least
\* MinTime and at most BaseTime seconds, and the rounded share of the counts
\* on the page never needs the upper clamp MaxTime.
C29_AtMostBase ==
    LET total == vehicleCounts["lane1"] + vehicleCounts["lane2"]
    IN  \A l \in Lanes :
            /\ signalTimes[l] \in MinTime..BaseTime
            /\ total > 0 =>
                  Min(MaxTime, Round(vehicleCounts[l], total))
                      = Round(vehicleCounts[l], total)

\* C29 witness: the recomputation gave a lane with all the vehicles the
\* largest value there is, BaseTime
C29_Witness ==
    /\ lastAction.name = "Start"
    /\ vehicleCounts["lane1"] = 0
    /\ vehicleCounts["lane2"] = MaxPolicyCount
    /\ signalTimes = [lane1 |-> MinTime, lane2 |-> BaseTime]

\* C30: a count report changes no entry of vehicleCounts but the reported
\* lane's and leaves emergencyStatus alone; an audio callback leaves
\* vehicleCounts alone, raises the flag of every lane it reports, both lanes'
\* when it reports both, and leaves the other flags as they were; the
\* clearing timeout of a lane changes only that lane's flag.
C30_ReportFrame ==
    [][ /\ YoloReport =>
             /\ \A l \in Lanes \ {yoloLane} :
                    vehicleCounts'[l] = vehicleCounts[l]
             /\ emergencyStatus' = emergencyStatus
        /\ AudioPoll =>
             /\ vehicleCounts' = vehicleCounts
             /\ \A l \in Lanes :
                    emergencyStatus'[l] =
                        (l \in lastAction'.onset \/ emergencyStatus[l])
        /\ \A lane \in Lanes :
             ClearEmergency(lane) =>
                 /\ vehicleCounts' = vehicleCounts
                 /\ \A l \in Lanes \ {lane} :
                        emergencyStatus'[l] = emergencyStatus[l] ]_vars

\* C30 witness: one audio callback reported both lanes and both flags are
\* up, with the counts of earlier reports for both lanes still on the page
C30_Witness ==
    /\ lastAction = [name |-> "AudioPoll", onset |-> Lanes]
    /\ emergencyStatus = [l \in Lanes |-> TRUE]
    /\ vehicleCounts = [lane1 |-> 1, lane2 |-> MaxCount]

\* C31: after an audio callback that ran with an analyser, exactly one lane
\* was reported when runAudioModel detected a siren and no lane when it did
\* not; lane1 and lane2 are never reported by the same callback.
C31_OneLanePerSiren ==
    (hasAnalyser /\ lastAction.name = "AudioPoll") =>
        Cardinality(lastAction.onset) = IF adapter.audio.siren THEN 1 ELSE 0

\* C31 witness: with an analyser, a siren found by a cached audio model was
\* attributed to lane2 alone while lane1 was active
C31_Witness ==
    /\ hasAnalyser
    /\ lastAction = [name |-> "AudioPoll", onset |-> {"lane2"}]
    /\ adapter.audio.siren
    /\ adapter.audio.load = "cached"
    /\ ~adapter.audio.fallback
    /\ emergencyStatus = [lane1 |-> FALSE, lane2 |-> TRUE]

----------------------------------------------------------------------------
(* The model cache with its loads in flight: loadYoloModel and             *)
(* loadAudioModel test the cache, await pipeline() and only then store the *)
(* instance.  The loads begun by the start commands are followed, up to    *)
(* the moment the first interval callback comes due.                       *)

\* loadYoloModel / loadAudioModel up to the await: a cached instance is
\* returned, otherwise pipeline() is called
BeginLoad(c) ==
    IF c.model # NoModel THEN [c EXCEPT !.returned = @ \cup {c.model}]
    ELSE [c EXCEPT !.loading = @ + 1]

\* pipeline() settles: the new instance is stored and returned, or the
\* error is rethrown and the cache is left as it is
EndLoad(c, ok) ==
    IF ok
    THEN [c EXCEPT !.loading = @ - 1,
                   !.created = @ + 1,
                   !.model = c.created + 1,
                   !.returned = @ \cup {c.created + 1}]
    ELSE [c EXCEPT !.loading = @ - 1]

\* handleStart: both start functions call their model, which calls its loader
CacheStart ==
    /\ RaceStartBody
    /\ cache' = [k \in Models |-> BeginLoad(cache[k])]

\* A pipeline() call in flight resolves or rejects
PipelineSettles(k, ok) ==
    /\ cache[k].loading > 0
    /\ cache' = [cache EXCEPT ![k] = EndLoad(cache[k], ok)]
    /\ UNCHANGED <<activeLane, vehicleCounts, emergencyStatus, signalTimes,
                   isRunning, switchTimer, pendingRender, yoloTimer, yoloLane,
                   audioTimer, clearTimers, hasAnalyser, adapter, modelStatus,
                   isSimulation, yoloAwait, audioAwait, yoloOrphans,
                   audioOrphans, clock, starts>>
    /\ Observe("PipelineSettles", {})

\* The awaited runYoloModel of a start resolves once its loader has returned
\* or thrown: some waiting call has no pipeline() in flight
CacheYoloLoaded(lane) ==
    /\ yoloAwait["lane1"] + yoloAwait["lane2"] > cache["yolo"].loading
    /\ YoloLoadedBody(lane)
    /\ UNCHANGED cache

CacheAudioLoaded ==
    /\ audioAwait > cache["audio"].loading
    /\ AudioLoadedBody
    /\ UNCHANGED cache

CacheNext ==
    \/ CacheStart
    \/ AdapterStop
    \/ \E k \in Models, ok \in BOOLEAN : PipelineSettles(k, ok)
    \/ \E lane \in Lanes : CacheYoloLoaded(lane)
    \/ CacheAudioLoaded

CacheSpec == Init /\ [][CacheNext]_vars

\* C32: of either model at most one instance is ever created and the loader
\* never returns two different instances; the cache is empty exactly as long
\* as no load has succeeded.
C32_LoadedOnce ==
    \A k \in Models :
        /\ cache[k].created <= 1
        /\ Cardinality(cache[k].returned) <= 1
        /\ (cache[k].model = NoModel) = (cache[k].created = 0)

====
